---- MODULE Spec2Model ----
(***************************************************************************)
(* SteeringController (steering_controller.py): a ROS 2 node that reads a  *)
(* list of waypoints from its parameters and, on every timer tick,         *)
(* publishes the linear interpolation between two consecutive waypoints,   *)
(* restarting the sequence after profile_and_wait_duration.                *)
(*                                                                         *)
(* Time.  Clock readings and durations are integers counting units of      *)
(* 1/Res second.  A float that the program holds in seconds is held here   *)
(* as the exact number of units, so comparisons and differences are the    *)
(* program's.  A published value is held as its numerator over Den.        *)
(***************************************************************************)
EXTENDS Integers, Sequences, FiniteSets

\* ------------------------------------------------------------- bounds
\* Clock units per second.
Res == 2
\* The largest clock reading.
MaxTime == 14
\* The clock advances at most this much between the two reads of one callback.
MaxReadGap == 1
\* The largest number of waypoint names in pos_names.
MaxWaypoints == 3
\* The largest number of joints, and of values in a waypoint of regular length.
MaxAxes == 2
\* Waypoint k, axis i holds |slope - 1| + slope * k * i, |slope| <= MaxSlope.
MaxSlope == 1
\* The largest wait_sec_between_profiles, in seconds.
MaxWait == 1

\* ------------------------------------------------------------- state
VARIABLES
    pc,                          \* "start", "running", "failed", "crashed"
    params,                      \* the node's parameters (the configuration)
    err,                         \* what the constructor raised, "" if nothing
    created,                     \* what the constructor created so far
    joints,                      \* self.joints
    positions,                   \* self.positions
    velocities,                  \* self.velocities
    profile_duration,            \* self.profile_duration, in units
    profile_and_wait_duration,   \* self.profile_and_wait_duration, in units
    sequence_start_time,         \* self.sequence_start_time, a clock reading
    clock,                       \* the latest reading of the node's clock
    published,                   \* what the latest callback published
    hist,                        \* the latest callback (see Called)
    sample                       \* one callback of the first cycle, observed

vars == <<pc, params, err, created, joints, positions, velocities,
          profile_duration, profile_and_wait_duration, sequence_start_time,
          clock, published, hist, sample>>

\* ------------------------------------------------------------- parameters
\* A parameter that is not set (its value is None), and one that is set.
Absent == [isNone |-> TRUE, v |-> <<>>]
Val(s) == [isNone |-> FALSE, v |-> s]

\* self.segment_duration_in_seconds
segment_duration_in_seconds == 1

\* Seconds to clock units.
Units(s) == s * Res

\* The denominator of a published value.
Den == Res * segment_duration_in_seconds

\* Waypoint k (from 0) with n values.  Slope 1 gives <<0,0>>, <<1,2>>, <<2,4>>;
\* slope 0 a profile that stands still, a negative slope one that descends.
Abs(x) == IF x >= 0 THEN x ELSE -x
Waypoint(k, n, slope) == [i \in 1..n |-> Abs(slope - 1) + slope * k * i]

\* What a waypoint's parameter may hold instead of a list of `a` values.
Defects == {"absent", "empty", "short", "long"}

DefectValue(kind, k, a, slope) ==
    CASE kind = "absent" -> Absent
      [] kind = "empty"  -> Val(<<>>)
      [] kind = "short"  -> Val(Waypoint(k, a - 1, slope))
      [] kind = "long"   -> Val(Waypoint(k, a + 1, slope))

\* n waypoints of `a` values each; waypoint j (none when j = 0) has the defect.
PosParams(n, a, slope, j, kind) ==
    [k \in 1..n |-> IF k = j THEN DefectValue(kind, k - 1, a, slope)
                             ELSE Val(Waypoint(k - 1, a, slope))]

PosParamLists ==
    {PosParams(n, a, slope, 0, "absent") :
        n \in 0..MaxWaypoints, a \in 1..MaxAxes, slope \in -MaxSlope..MaxSlope}
    \cup
    UNION {{PosParams(n, a, 1, j, kind) : j \in 1..n, kind \in Defects} :
        n \in 1..MaxWaypoints, a \in 1..MaxAxes}

VelParamLists ==
    {<<>>, <<Val(<<0>>)>>, <<Absent>>, <<Val(<<>>)>>, <<Val(<<0>>), Absent>>}

JointsParams == {Absent} \cup {Val([i \in 1..n |-> i]) : n \in 0..MaxAxes}

ParamSets ==
    [joints : JointsParams,
     pos : PosParamLists,
     vel : VelParamLists,
     wait_sec_between_profiles : 0..MaxWait,
     publishing_rate_in_hz : {0, 25}]

\* ------------------------------------------------------------- __init__
\* A faulty variant: the test for an empty list is forgotten.
UnsetNoneOnly(p) == p.isNone

Unset(p) == p.isNone \/ Len(p.v) = 0

\* The first entry of a list of named parameters that is not set, 0 if none.
FirstUnset(list) ==
    IF \E i \in 1..Len(list) : Unset(list[i])
    THEN CHOOSE i \in 1..Len(list) :
            Unset(list[i]) /\ \A h \in 1..(i - 1) : ~Unset(list[h])
    ELSE 0

\* A faulty variant: the first list is read once more after the last, to close
\* the loop.
ReadAllClosed(list) ==
    IF Len(list) = 0 THEN <<>>
    ELSE [i \in 1..(Len(list) + 1) |->
             IF i <= Len(list) THEN list[i].v ELSE list[1].v]

\* The float lists read from a list of named parameters, all of them set.
ReadAll(list) == [i \in 1..Len(list) |-> list[i].v]

\* A faulty variant: the segments are counted, not the waypoints.
ProfileDurationOfSegments(pos) ==
    Units(segment_duration_in_seconds * (Len(pos) - 1))

ProfileDuration(pos) == Units(segment_duration_in_seconds * Len(pos))

ProfileAndWaitDuration(pd, wait) == pd + Units(wait)

Fail(e, made) ==
    /\ pc' = "failed"
    /\ err' = e
    /\ created' = made
    /\ UNCHANGED <<params, joints, positions, velocities, profile_duration,
                   profile_and_wait_duration, sequence_start_time, clock,
                   published, hist, sample>>

Construct ==
    /\ pc = "start"
    /\ IF Unset(params.joints) THEN Fail("joints", {})
       ELSE IF FirstUnset(params.pos) # 0 THEN Fail("positions", {})
       ELSE IF FirstUnset(params.vel) # 0 THEN Fail("velocities", {})
       ELSE IF params.publishing_rate_in_hz = 0
            THEN Fail("rate", {"publisher", "sequence_start_time"})
       ELSE /\ pc' = "running"
            /\ joints' = params.joints.v
            /\ positions' = ReadAll(params.pos)
            /\ velocities' = ReadAll(params.vel)
            /\ profile_duration' = ProfileDuration(positions')
            /\ profile_and_wait_duration' =
                 ProfileAndWaitDuration(profile_duration',
                                        params.wait_sec_between_profiles)
            /\ sequence_start_time' = clock
            /\ created' = {"publisher", "sequence_start_time", "timer"}
            /\ UNCHANGED <<params, err, clock, published, hist, sample>>

\* ------------------------------------------------------------- timer_callback
\* running_duration_as_float, in units: current_time - self.sequence_start_time.
\* A faulty variant: the current time is taken for the running duration.
RunningDurationAbsolute(now) == now

\* A faulty variant: the running duration is advanced by one clock unit for
\* each callback instead of being taken from the clock.
RunningDurationByTicks(now) ==
    IF hist.branch \in {"none", "reset"} THEN 0
    ELSE hist.now - sequence_start_time + 1

RunningDuration(now) == now - sequence_start_time

\* A faulty variant: the index wraps around instead of running off the profile.
IntOfWrapped(u) == (u \div Res) % 2

\* A faulty variant: past the first segment the index is one behind.
IntOfOneBehind(u) == IF u >= Res THEN (u \div Res) - 1 ELSE 0

\* int(x) of a float x of u units: truncation toward zero.
IntOf(u) == IF u >= 0 THEN u \div Res ELSE -((-u) \div Res)

\* A faulty variant: the comparison is not strict.
ResetDueInclusive(running) == running >= profile_and_wait_duration

\* A faulty variant: the wait is left out of the comparison.
ResetDueAfterProfile(running) == running > profile_duration

ResetDue(running) == running > profile_and_wait_duration

Waiting(running) == running > profile_duration

\* A faulty variant: the next cycle is started where the last one should have ended.
NewStartTimeOnSchedule(now, now2) ==
    sequence_start_time + profile_and_wait_duration

\* A faulty variant: the next cycle is started one clock unit ahead.
NewStartTimeAhead(now, now2) == now2 + 1

\* What the reset branch stores: a second reading of the clock.
NewStartTime(now, now2) == now2

\* A faulty variant: start and end are swapped.
InterpolateSwapped(start, end, fracNum) ==
    (start - end) * fracNum + end * Den

\* The numerator (over Den) of (end - start) * time_fraction + start.
Interpolate(start, end, fracNum) == (end - start) * fracNum + start * Den

\* The callback so far: its clock reading, the start time it read, its branch,
\* and whether a reset had happened before it.
Called(now, branch) ==
    [now |-> now, start |-> sequence_start_time, branch |-> branch,
     later |-> hist.later \/ hist.branch = "reset"]

\* A faulty variant: a callback that returns early restarts the sequence too.
ReturnRestarting(branch, now) ==
    /\ hist' = Called(now, branch)
    /\ clock' = now
    /\ published' = <<>>
    /\ sequence_start_time' = now
    /\ UNCHANGED pc

Return(branch, now) ==
    /\ hist' = Called(now, branch)
    /\ clock' = now
    /\ published' = <<>>
    /\ UNCHANGED <<pc, sequence_start_time>>

\* msg.data: the loop over range(len(profile_start_values)) has run to its end.
Publish(startVals, endVals, fracNum, now) ==
    /\ published' = << [i \in 1..Len(startVals) |->
                          Interpolate(startVals[i], endVals[i], fracNum)] >>
    /\ hist' = Called(now, "emit")
    /\ clock' = now
    /\ UNCHANGED <<pc, sequence_start_time>>

\* profile_end_values[i] raises IndexError; it ends rclpy.spin and the process.
Raise(now) ==
    /\ pc' = "crashed"
    /\ hist' = Called(now, "error")
    /\ clock' = now
    /\ published' = <<>>
    /\ UNCHANGED sequence_start_time

TimerCallback(now, now2) ==
    LET running == RunningDuration(now)
        lower == IntOf(running)
        upper == lower + 1
        fracNum == running - Units(lower)
    IN
    /\ pc = "running"
    /\ "timer" \in created
    /\ UNCHANGED <<params, err, created, joints, positions, velocities,
                   profile_duration, profile_and_wait_duration>>
    /\ IF ResetDue(running)
       THEN /\ sequence_start_time' = NewStartTime(now, now2)
            /\ clock' = now2
            /\ hist' = Called(now, "reset")
            /\ published' = <<>>
            /\ UNCHANGED pc
       ELSE IF Waiting(running) THEN Return("wait", now)
       ELSE IF lower < 0 THEN Return("low", now)
       ELSE IF upper >= Len(positions) THEN Return("high", now)
       ELSE IF Len(positions[upper + 1]) < Len(positions[lower + 1])
            THEN Raise(now)
       ELSE Publish(positions[lower + 1], positions[upper + 1], fracNum, now)

\* What an observer of one callback of the first cycle keeps of it.
NoSample == [d |-> 0, branch |-> "none", published |-> <<>>]

Observe ==
    \/ UNCHANGED sample
    \/ /\ sample = NoSample
       /\ ~hist'.later
       /\ sample' = [d |-> hist'.now - hist'.start, branch |-> hist'.branch,
                     published |-> published']

Min(a, b) == IF a <= b THEN a ELSE b

\* The readings the clock may give after the reading `now`, in one callback.
SecondReads(now) == now..Min(now + MaxReadGap, MaxTime)

\* The timer fires: the clock has not gone back since its latest reading.  The
\* callback reads the clock a second time only where it resets.
Tick ==
    /\ \E now \in clock..MaxTime :
          \E now2 \in IF ResetDue(RunningDuration(now))
                      THEN SecondReads(now) ELSE {now} :
              TimerCallback(now, now2)
    /\ Observe

\* ------------------------------------------------------------- specification
Init ==
    /\ pc = "start"
    /\ params \in ParamSets
    /\ err = ""
    /\ created = {}
    /\ joints = <<>>
    /\ positions = <<>>
    /\ velocities = <<>>
    /\ profile_duration = 0
    /\ profile_and_wait_duration = 0
    /\ sequence_start_time = 0
    /\ clock \in 0..1
    /\ published = <<>>
    /\ hist = [now |-> 0, start |-> 0, branch |-> "none", later |-> FALSE]
    /\ sample = NoSample

Next == Construct \/ Tick

Spec == Init /\ [][Next]_vars

\* The node's clock is ROS time, which can be set back (simulated time, a
\* replayed recording): a reading may then be earlier than the one before it.
Max(a, b) == IF a >= b THEN a ELSE b

AnyReads(now) == Max(0, now - MaxReadGap)..Min(now + MaxReadGap, MaxTime)

TickAnyClock ==
    /\ \E now \in 0..MaxTime :
          \E now2 \in IF ResetDue(RunningDuration(now))
                      THEN AnyReads(now) ELSE {now} :
              TimerCallback(now, now2)
    /\ UNCHANGED sample

NextAnyClock == Construct \/ TickAnyClock

SpecAnyClock == Init /\ [][NextAnyClock]_vars

\* The timer keeps firing and the clock keeps advancing: between two ticks the
\* clock advances by a clock unit at least and by less than the N-1 segments
\* that a profile of N waypoints plays (by one clock unit where that is
\* nothing).
LiveGaps ==
    1..Max(1, (Len(positions) - 1) * Units(segment_duration_in_seconds) - 1)

\* The callback computes differences of clock readings only (line 119), so
\* the origin of time is free: after a reset it is moved to the resetting
\* tick's `now`, which keeps the readings of an unbounded clock bounded.
EpochDue == hist.branch = "reset" /\ hist.now > 0

NewEpoch ==
    /\ pc = "running"
    /\ EpochDue
    /\ sequence_start_time' = sequence_start_time - hist.now
    /\ clock' = clock - hist.now
    /\ hist' = [hist EXCEPT !.now = 0, !.start = hist.start - hist.now]
    /\ UNCHANGED <<pc, params, err, created, joints, positions, velocities,
                   profile_duration, profile_and_wait_duration, published,
                   sample>>

TickLive ==
    /\ ~EpochDue
    /\ \E gap \in LiveGaps :
          \E now2 \in IF ResetDue(RunningDuration(clock + gap))
                      THEN (clock + gap)..(clock + gap + MaxReadGap)
                      ELSE {clock + gap} :
              TimerCallback(clock + gap, now2)
    /\ UNCHANGED sample

NextLive == Construct \/ TickLive \/ NewEpoch

\* rclpy.spin calls the callback whenever the timer is ready.
SpecLive ==
    /\ Init
    /\ [][NextLive]_vars
    /\ WF_vars(Construct)
    /\ WF_vars(TickLive)
    /\ WF_vars(NewEpoch)

\* ------------------------------------------------------------- vocabulary
\* The latest callback's elapsed time, and whether there has been a callback.
Ticked == hist.branch # "none"
Elapsed == hist.now - hist.start
Constructed == pc \in {"running", "crashed"}
WaypointCount == Len(positions)
SegmentUnits == Units(segment_duration_in_seconds)

\* A vector of floats as published: numerators over Den.
Scaled(vec) == [i \in 1..Len(vec) |-> vec[i] * Den]

\* ------------------------------------------------------------- claims
\* The first waypoint can be played: there is a second one and it is not shorter.
PlaysAtZero ==
    /\ WaypointCount >= 2
    /\ Len(positions[1]) <= Len(positions[2])

\* The profile has a waypoint, and every waypoint has one value per joint: the
\* profiles about which C5, C9 and C10 say nothing.
Regular ==
    /\ WaypointCount >= 1
    /\ \A k \in 1..WaypointCount : Len(positions[k]) = Len(joints)

C2_SilentFromProfileEndToCycleEnd ==
    (Ticked /\ profile_duration <= Elapsed
            /\ Elapsed <= profile_and_wait_duration)
        => published = <<>>

\* C2 witness: a tick at elapsed = ProfileDuration exactly, which is not past
\* the wait test and is stopped by the index test.
C2_Witness ==
    /\ Ticked
    /\ WaypointCount >= 2
    /\ Elapsed = profile_duration
    /\ Elapsed < profile_and_wait_duration
    /\ hist.branch = "high"

\* C3 as stated: after construction a tick at elapsed = 0 emits exactly one
\* vector, waypoint[0].  Taken on the regular profiles alone, so that what
\* refutes it is no other claim's subject.
C3_FirstWaypointAlways ==
    (Ticked /\ Regular /\ Elapsed = 0)
        => published = <<Scaled(positions[1])>>

\* C3 amended: a tick at elapsed = 0 emits exactly one vector, waypoint[0],
\* when the profile has two waypoints or more and waypoint[0] is not longer
\* than waypoint[1]; otherwise it emits nothing (with two waypoints or more it
\* raises, with fewer it returns).
C3_FirstWaypointWhenPlayable ==
    (Ticked /\ Elapsed = 0)
        => IF PlaysAtZero
           THEN hist.branch = "emit" /\ published = <<Scaled(positions[1])>>
           ELSE /\ published = <<>>
                /\ hist.branch = (IF WaypointCount >= 2 THEN "error" ELSE "high")

\* C3 witness: a tick at elapsed = 0 emitted a waypoint[0] that is not zero.
C3_Witness ==
    /\ Ticked
    /\ Elapsed = 0
    /\ hist.branch = "emit"
    /\ published = <<Scaled(positions[1])>>
    /\ positions[1][1] # 0

\* C4: with N >= 2 waypoints, a tick with 0 <= elapsed < (N-1)*SegmentDuration
\* emits exactly one complete vector, start[i] + fraction * (end[i] - start[i])
\* on each axis i, start and end being waypoints k and k+1 for
\* k = floor(elapsed / SegmentDuration).
C4_Segment == Elapsed \div SegmentUnits
C4_InterpolatesEverySegment ==
    (Ticked /\ WaypointCount >= 2 /\ 0 <= Elapsed
            /\ Elapsed < (WaypointCount - 1) * SegmentUnits)
        => LET start == positions[C4_Segment + 1]
               end == positions[C4_Segment + 2]
               fracNum == Elapsed - C4_Segment * SegmentUnits
           IN /\ Len(published) = 1
              /\ Len(published[1]) = Len(joints)
              /\ \A i \in 1..Len(joints) :
                    /\ i \in DOMAIN start
                    /\ i \in DOMAIN end
                    /\ published[1][i] * SegmentUnits =
                          Den * (start[i] * SegmentUnits
                                   + fracNum * (end[i] - start[i]))

\* C4 on the regular profiles, where the code does as C4 says.
C4_InterpolatesRegularProfiles ==
    Regular => C4_InterpolatesEverySegment

\* C4's example: waypoints [[0,0],[1,2],[2,4]], outputs [0.5,1.0] at elapsed
\* 0.5 s and [1.5,3.0] at elapsed 1.5 s.
C4_Example ==
    (Ticked /\ positions = <<<<0, 0>>, <<1, 2>>, <<2, 4>>>>)
        => /\ 2 * Elapsed = Units(1)
              => (/\ Len(published) = 1
                  /\ Len(published[1]) = 2
                  /\ 2 * published[1][1] = 1 * Den
                  /\ 2 * published[1][2] = 2 * Den)
           /\ 2 * Elapsed = Units(3)
              => (/\ Len(published) = 1
                  /\ Len(published[1]) = 2
                  /\ 2 * published[1][1] = 3 * Den
                  /\ 2 * published[1][2] = 6 * Den)

\* C5: construction fails when pos_names is empty.
C5_NoWaypointsNoNode ==
    Len(params.pos) = 0 => ~Constructed

\* C6: construction fails, with no start time set and no timer created, when
\* joints is absent or empty or a named position or velocity list is absent
\* or empty; then no tick runs and nothing is published.
C6_ListMissing ==
    \/ params.joints.isNone
    \/ Len(params.joints.v) = 0
    \/ \E i \in 1..Len(params.pos) :
          params.pos[i].isNone \/ Len(params.pos[i].v) = 0
    \/ \E i \in 1..Len(params.vel) :
          params.vel[i].isNone \/ Len(params.vel[i].v) = 0

C6_MissingListFailsEarly ==
    C6_ListMissing
        => /\ pc \in {"start", "failed"}
           /\ pc = "failed" => (err \in {"joints", "positions", "velocities"}
                                  /\ created = {})
           /\ ~Ticked
           /\ published = <<>>

\* C6 witness: the constructor raised for a velocity list, the last one read.
C6_Witness ==
    /\ pc = "failed"
    /\ err = "velocities"
    /\ Len(params.pos) >= 2

\* C7: after construction ProfileDuration = SegmentDuration * N and
\* CycleDuration = ProfileDuration + WaitDuration, and no step changes either.
C7_Durations ==
    Constructed
        => /\ profile_duration = SegmentUnits * WaypointCount
           /\ profile_and_wait_duration =
                 profile_duration + Units(params.wait_sec_between_profiles)

C7_DurationsKept ==
    Constructed
        => /\ profile_duration' = profile_duration
           /\ profile_and_wait_duration' = profile_and_wait_duration

C7_DurationsDerivedAndConstant ==
    []C7_Durations /\ [][C7_DurationsKept]_vars

\* C7 witness: a tick of a later cycle of a profile of three waypoints that
\* waits one second.
C7_Witness ==
    /\ hist.later
    /\ hist.branch = "emit"
    /\ WaypointCount = 3
    /\ profile_and_wait_duration > profile_duration

\* C8, first part: a tick of a later cycle at elapsed d has the outcome of
\* the first cycle's tick at elapsed d.
C8_SameAsFirstCycle ==
    (Ticked /\ hist.later /\ sample # NoSample /\ Elapsed = sample.d)
        => (hist.branch = sample.branch /\ published = sample.published)

\* C8 as stated: that, and a tick at elapsed = 0 after a reset emits
\* waypoint[0].  Taken on the regular profiles alone, so that what refutes it
\* is no other claim's subject.
C8_RestartEmitsFirstWaypoint ==
    /\ C8_SameAsFirstCycle
    /\ (Ticked /\ Regular /\ hist.later /\ Elapsed = 0)
          => published = <<Scaled(positions[1])>>

\* C8 amended: a tick of a later cycle at elapsed d has the outcome of the
\* first cycle's tick at elapsed d; a tick at elapsed = 0 after a reset emits
\* waypoint[0] when the profile has two waypoints or more and waypoint[0] is
\* not longer than waypoint[1], and nothing otherwise.
C8_Restartable ==
    /\ C8_SameAsFirstCycle
    /\ (Ticked /\ hist.later /\ Elapsed = 0)
          => published = (IF PlaysAtZero THEN <<Scaled(positions[1])>>
                                         ELSE <<>>)

\* C8 witness: a later cycle repeats, past its start, a vector that the first
\* cycle emitted and that is not zero.
C8_Witness ==
    /\ hist.later
    /\ hist.branch = "emit"
    /\ Elapsed = sample.d
    /\ Elapsed > 0
    /\ sample.branch = "emit"
    /\ published = sample.published
    /\ published[1][1] # 0

\* C9: no tick raises, waypoints of differing lengths included.
C9_NoTickRaises ==
    pc # "crashed" /\ hist.branch # "error"

\* C10: every vector published has as many values as there are joints.
C10_OneValuePerJoint ==
    published # <<>> => Len(published[1]) = Len(joints)

\* C12: a tick with elapsed = CycleDuration exactly leaves sequence_start_time
\* as it was and emits nothing (it waits, or its index is out of range); a
\* tick that resets has elapsed > CycleDuration.
C12_ResetIsStrict ==
    /\ (Ticked /\ Elapsed = profile_and_wait_duration)
          => /\ sequence_start_time = hist.start
             /\ hist.branch \in {"wait", "high"}
             /\ published = <<>>
    /\ hist.branch = "reset" => Elapsed > profile_and_wait_duration

\* C12 witness: a tick at the end of a wait of one second, which waits on.
C12_Witness ==
    /\ Elapsed = profile_and_wait_duration
    /\ profile_and_wait_duration > profile_duration
    /\ WaypointCount >= 2
    /\ hist.branch = "wait"
    /\ sequence_start_time = hist.start

\* C13 as stated: a tick with elapsed >= CycleDuration resets and emits
\* nothing, and a tick with ProfileDuration <= elapsed < CycleDuration leaves
\* sequence_start_time as it was.  Taken on the regular profiles alone, and
\* without asking which reading the reset stores, so that what refutes it is
\* no other claim's subject.
C13_ResetAtCycleEnd ==
    /\ (Ticked /\ Regular /\ Elapsed >= profile_and_wait_duration)
          => (hist.branch = "reset" /\ published = <<>>)
    /\ (Ticked /\ Regular /\ profile_duration <= Elapsed
               /\ Elapsed < profile_and_wait_duration)
          => sequence_start_time = hist.start

\* C13 amended: a tick with elapsed > CycleDuration resets, to a second
\* reading of the clock, and emits nothing; a tick with
\* ProfileDuration <= elapsed <= CycleDuration leaves sequence_start_time as
\* it was and emits nothing.
C13_ResetPastCycleEnd ==
    /\ (Ticked /\ Elapsed > profile_and_wait_duration)
          => /\ hist.branch = "reset"
             /\ sequence_start_time = clock
             /\ published = <<>>
    /\ (Ticked /\ profile_duration <= Elapsed
               /\ Elapsed <= profile_and_wait_duration)
          => /\ hist.branch \in {"wait", "high"}
             /\ sequence_start_time = hist.start
             /\ published = <<>>

\* C13 witness: a tick inside the wait, after the profile's end and before
\* the cycle's.
C13_Witness ==
    /\ hist.branch = "wait"
    /\ profile_duration < Elapsed
    /\ Elapsed < profile_and_wait_duration
    /\ sequence_start_time = hist.start

\* C14: a step that changes sequence_start_time is a tick that resets, with
\* elapsed > CycleDuration; a tick that waits, emits or finds its index out
\* of range, low or high, leaves sequence_start_time, the waypoints and both
\* durations as they were.
C14_TickFrame ==
    pc = "running"
        => /\ sequence_start_time' # sequence_start_time
                => /\ hist'.branch = "reset"
                   /\ hist'.now - sequence_start_time
                         > profile_and_wait_duration
           /\ hist'.branch \in {"wait", "low", "high", "emit"}
                => /\ sequence_start_time' = sequence_start_time
                   /\ positions' = positions
                   /\ profile_duration' = profile_duration
                   /\ profile_and_wait_duration' = profile_and_wait_duration

C14_OnlyResetMovesStart == [][C14_TickFrame]_vars

\* C14 witness: in a later cycle, a tick whose index is below the profile
\* has left the start time alone.
C14_Witness ==
    /\ hist.later
    /\ hist.branch = "low"
    /\ sequence_start_time = hist.start
    /\ sequence_start_time > 0

\* C16: a tick with negative elapsed time, between -SegmentDuration and 0
\* included, emits nothing, so that no vector is computed with a negative
\* fraction.  Taken on the regular profiles alone.
C16_NegativeElapsedIsSilent ==
    (Ticked /\ Regular /\ Elapsed < 0) => published = <<>>

\* C15: no tick with elapsed >= (N-1)*SegmentDuration emits; a vector that is
\* emitted is the interpolation between waypoints k and k+1 with k <= N-2
\* and a fraction below 1, so the last waypoint is never reached.
C15_Segment == Elapsed \div SegmentUnits
C15_FinalSegmentNeverPlayed ==
    /\ (Ticked /\ Elapsed >= (WaypointCount - 1) * SegmentUnits)
          => published = <<>>
    /\ published # <<>>
          => /\ WaypointCount >= 2
             /\ 0 <= Elapsed
             /\ C15_Segment <= WaypointCount - 2
             /\ LET start == positions[C15_Segment + 1]
                    end == positions[C15_Segment + 2]
                    fracNum == Elapsed - C15_Segment * SegmentUnits
                IN /\ fracNum < SegmentUnits
                   /\ Len(published[1]) = Len(start)
                   /\ \A i \in 1..Len(start) :
                         published[1][i] * SegmentUnits =
                            Den * (start[i] * SegmentUnits
                                     + fracNum * (end[i] - start[i]))

\* C15 witness: of three waypoints, the latest tick that still emits: in the
\* segment before the last, one clock unit before its end.
C15_Witness ==
    /\ WaypointCount = 3
    /\ hist.branch = "emit"
    /\ Elapsed = 2 * SegmentUnits - 1
    /\ published[1][1] # 0

\* C17: with a clock that is never set back, sequence_start_time is never
\* later than the clock's latest reading, so never later than the `now` of a
\* tick to come and elapsed >= 0 at every tick, the tick after a reset
\* included; and sequence_start_time never decreases.
C17_StartNotAfterClock ==
    /\ Constructed => sequence_start_time <= clock
    /\ Ticked => Elapsed >= 0

C17_StartNotDecreasing ==
    pc = "running" => sequence_start_time' >= sequence_start_time

C17_StartBehindClock ==
    []C17_StartNotAfterClock /\ [][C17_StartNotDecreasing]_vars

\* C17 witness: the tick after a reset reads the very time the reset stored.
C17_Witness ==
    /\ hist.later
    /\ hist.branch = "emit"
    /\ Elapsed = 0
    /\ hist.start > 0

\* C18: what a tick does is a function of now - sequence_start_time and of
\* the profile alone: whatever ticks came before it, and whenever, a tick at
\* elapsed e >= 0 resets, waits, returns, raises or emits as C18_Branch(e)
\* says, and emits C18_Vector(e); and it does as the tick of the first cycle
\* that was observed at the same elapsed time did.
C18_Branch(e) ==
    LET k == e \div SegmentUnits IN
    IF e > profile_and_wait_duration THEN "reset"
    ELSE IF e > profile_duration THEN "wait"
    ELSE IF k + 2 > WaypointCount THEN "high"
    ELSE IF Len(positions[k + 2]) < Len(positions[k + 1]) THEN "error"
    ELSE "emit"

C18_Vector(e) ==
    LET k == e \div SegmentUnits
        f == e - k * SegmentUnits
    IN [i \in 1..Len(positions[k + 1]) |->
           positions[k + 1][i] * Den
              + f * (positions[k + 2][i] - positions[k + 1][i])]

C18_NoDrift ==
    /\ Ticked
          => /\ Elapsed >= 0
             /\ hist.branch = C18_Branch(Elapsed)
             /\ published = (IF hist.branch = "emit"
                             THEN <<C18_Vector(Elapsed)>> ELSE <<>>)
    /\ (Ticked /\ sample # NoSample /\ Elapsed = sample.d)
          => (hist.branch = sample.branch /\ published = sample.published)

\* C18 witness: a tick of the first cycle emits after an earlier tick of the
\* same cycle, at another time, was observed.
C18_Witness ==
    /\ ~hist.later
    /\ hist.branch = "emit"
    /\ sample # NoSample
    /\ sample.d < Elapsed
    /\ published[1][1] # 0

\* C19: a reset comes more than CycleDuration after the time the reset before
\* it stored, or, for the first reset, after the time the constructor stored:
\* both the resetting tick's `now` and the time it stores are that much
\* later.  A tick that follows a resetting tick at once resets only if more
\* than CycleDuration has passed since that reset.
C19_ResetLate ==
    hist.branch = "reset"
        => /\ hist.now - hist.start > profile_and_wait_duration
           /\ sequence_start_time - hist.start > profile_and_wait_duration

C19_NoResetRightAfterReset ==
    (pc = "running" /\ hist.branch = "reset" /\ hist'.branch = "reset")
        => /\ hist'.now - sequence_start_time > profile_and_wait_duration
           /\ hist'.now - hist.now > profile_and_wait_duration

C19_ResetsApart ==
    []C19_ResetLate /\ [][C19_NoResetRightAfterReset]_vars

\* C19 witness: a second reset of a profile of two waypoints or more.
C19_Witness ==
    /\ hist.later
    /\ hist.branch = "reset"
    /\ WaypointCount >= 2

\* C20: a profile of one waypoint constructs, given the lists are set and the
\* rate is not zero; no tick of it ever emits or raises; and its ticks with
\* elapsed > CycleDuration still reset.
C20_OneWaypointIsSilent ==
    Len(params.pos) = 1
        => /\ (~C6_ListMissing /\ params.publishing_rate_in_hz # 0)
                 => pc # "failed"
           /\ Constructed
                 => /\ pc = "running"
                    /\ WaypointCount = 1
                    /\ published = <<>>
                    /\ hist.branch \in {"none", "reset", "wait", "high"}
           /\ (Ticked /\ Elapsed > profile_and_wait_duration)
                 => /\ hist.branch = "reset"
                    /\ sequence_start_time = clock

\* C20 witness: in a later cycle of a profile of one waypoint, a tick inside
\* the profile's duration returns without output.
C20_Witness ==
    /\ WaypointCount = 1
    /\ hist.later
    /\ hist.branch = "high"
    /\ Elapsed < profile_duration
    /\ published = <<>>

\* C11: with N >= 2 waypoints, a clock that advances without bound and a
\* timer that keeps firing with gaps below (N-1)*SegmentDuration, the start
\* time is reset infinitely often, a vector is emitted infinitely often, and
\* every reset is followed by a tick that emits.
C11_Applies ==
    /\ Len(params.pos) >= 2
    /\ ~C6_ListMissing
    /\ params.publishing_rate_in_hz # 0

C11_Looping ==
    /\ []<>(hist.branch = "reset")
    /\ []<>(hist.branch = "emit")
    /\ [](hist.branch = "reset" => <>(hist.branch = "emit"))

C11_SequenceLoops == C11_Applies => C11_Looping

\* C11 on the profiles in which no waypoint is shorter than the one before
\* it, where the code does as C11 says.
C11_NoShorterWaypoint ==
    \A k \in 1..(Len(params.pos) - 1) :
        Len(params.pos[k + 1].v) >= Len(params.pos[k].v)

C11_SequenceLoopsUnlessRaised ==
    (C11_Applies /\ C11_NoShorterWaypoint) => C11_Looping

====
